---- MODULE Spec2Model ----
(***************************************************************************)
(* Model of backend/main.py of PersonalVoiceBot: the persona engine        *)
(* (summary cache), the in-process session store, transcribe_audio, and    *)
(* the /api/chat-voice and /api/reset handlers with their temp files.      *)
(*                                                                         *)
(* Scheduling: the handlers are `async def` and run on one event loop, so  *)
(* a handler runs without interruption from one suspension point to the    *)
(* next.  chat_voice suspends only in `await communicate.save(...)`        *)
(* (line 365) and in `await communicator.save(...)` inside                 *)
(* generate_error_audio (line 158): transcribe_audio contains no await     *)
(* and the reasoning call is the synchronous client.  One action of the    *)
(* model is one such uninterrupted segment.                                *)
(***************************************************************************)
EXTENDS Integers, Sequences, FiniteSets, TLC

(***************************************************************************)
(* Bounds of the model.                                                    *)
(***************************************************************************)
MaxRequests == 2        \* chat-voice requests served under Spec
MaxResets == 1          \* /api/reset requests served
MaxReplyRequests == 1   \* chat-voice requests served under SpecReply
MaxStoreRequests == 2   \* chat-voice requests served under SpecStore
MaxWindowRequests == 1  \* chat-voice requests served under SpecWindow
MaxPriorPairs == 4      \* turn pairs in a history SpecWindow starts from
MaxStarts == 3          \* process starts under SpecPersona

HistoryWindow == 6      \* history[-6:]

MaxOf(a, b) == IF a > b THEN a ELSE b
AllRequests ==
    1..MaxOf(MaxOf(MaxRequests, MaxReplyRequests),
             MaxOf(MaxStoreRequests, MaxWindowRequests))
Requests == 1..MaxRequests
ReplyRequests == 1..MaxReplyRequests
StoreRequests == 1..MaxStoreRequests
WindowRequests == 1..MaxWindowRequests

(***************************************************************************)
(* Values.  Python's None is None for atoms (names, ids), NoText for a     *)
(* text and NoPath for a path.  A text is a sequence of tokens: a token is *)
(* one character that matters to the code (a backtick, a whitespace        *)
(* character) or a run of other characters taken as a unit.                *)
(***************************************************************************)
None == "None"
NoText == <<"<None>">>
NoPath == <<>>
NoSession == <<>>

SessionIds == {"s1", "s2"}
UserNames == {None, "", "Alice"}
UserEmails == {None, "a@x.com"}
ContentTypes == {"audio/wav", "audio/webm"}

BT == "BACKTICK"
NL == "LF"
SP == " "
JSONWORD == "json"
Whitespace == {NL, SP}

\* JSON documents the reasoning service can return, each one token.
DocFull == "{user_summary: asked about X, response_text: I focus on Y}"
DocNoResponse == "{user_summary: asked about X}"
DocNoSummary == "{response_text: I focus on Y}"
DocList == "[I focus on Y]"
JsonDocs == {DocFull, DocNoResponse, DocNoSummary, DocList}

AskedAboutX == <<"asked about X">>
IFocusOnY == <<"I focus on Y">>
NotSureIUnderstood == <<"I am not sure I understood.">>

Silence == <<"Silence">>
SystemError == <<"System Error">>
Utterances == {<<"hi">>, <<"what do you do">>, <<"tell me more">>}

(***************************************************************************)
(* Session store.                                                          *)
(***************************************************************************)
Turn(role, text) == [role |-> role, text |-> text]

\* bool(x) of an Optional[str]
Truthy(x) == x # None /\ x # ""

NewSession(uuid) ==
    [history |-> <<>>,
     user_profile |-> [name |-> None, email |-> None],
     created_at |-> uuid]

\* SessionManager.get_session: the store after the call; the session
\* returned is get_session(...)[session_id].
get_session(store, session_id, uuid) ==
    IF session_id \in DOMAIN store
    THEN store
    ELSE store @@ (session_id :> NewSession(uuid))

\* a store that appends the model turn before the user turn
update_history_model_first(store, session_id, user_text, model_text, uuid) ==
    LET st == get_session(store, session_id, uuid)
    IN  [st EXCEPT ![session_id].history =
            Append(Append(@, Turn("model", model_text)), Turn("user", user_text))]

\* a store that creates the session but appends nothing
update_history_not_committed(store, session_id, user_text, model_text, uuid) ==
    get_session(store, session_id, uuid)

\* SessionManager.update_history
update_history(store, session_id, user_text, model_text, uuid) ==
    LET st == get_session(store, session_id, uuid)
    IN  [st EXCEPT ![session_id].history =
            Append(Append(@, Turn("user", user_text)), Turn("model", model_text))]

\* SessionManager.update_profile
update_profile(store, session_id, name, email, uuid) ==
    LET st == get_session(store, session_id, uuid)
        s1 == IF Truthy(name)
              THEN [st EXCEPT ![session_id].user_profile.name = name]
              ELSE st
    IN  IF Truthy(email)
        THEN [s1 EXCEPT ![session_id].user_profile.email = email]
        ELSE s1

\* a clear that empties the history and keeps the session and its profile
clear_history_only(store, session_id) ==
    IF session_id \in DOMAIN store
    THEN [store EXCEPT ![session_id].history = <<>>]
    ELSE store

\* SessionManager.clear
clear(store, session_id) ==
    IF session_id \in DOMAIN store
    THEN [t \in DOMAIN store \ {session_id} |-> store[t]]
    ELSE store

EmptyStore == [t \in {} |-> NewSession(NoSession)]

HistoryOf(store, session_id) ==
    IF session_id \in DOMAIN store THEN store[session_id].history ELSE <<>>

(***************************************************************************)
(* Files.                                                                  *)
(***************************************************************************)
\* remove_file
remove_file(fs, path) == fs \ {path}

\* tempfile.NamedTemporaryFile(delete=False, suffix=suffix) of request r
InputPath(r, suffix) == <<"tmp_in", r, suffix>>
\* uuid.uuid4() drawn while request r is served (0: before any request)
Uuid(r) == <<"uuid", r>>
\* f"resp_{uuid.uuid4()}.mp3" of request r
RespPath(r) == <<"resp", r, ".mp3">>
\* tempfile.NamedTemporaryFile(delete=False, suffix=".mp3") of request r
ErrPath(r) == <<"tmp_err", r, ".mp3">>

(***************************************************************************)
(* Text functions of the response parsing.                                 *)
(***************************************************************************)
RECURSIVE ReSubFences(_)
\* re.sub(r'```json|```', '', raw_text): leftmost matches, left to right
ReSubFences(s) ==
    IF s = <<>> THEN <<>>
    ELSE IF Len(s) >= 3 /\ s[1] = BT /\ s[2] = BT /\ s[3] = BT
         THEN IF Len(s) >= 4 /\ s[4] = JSONWORD
              THEN ReSubFences(SubSeq(s, 5, Len(s)))
              ELSE ReSubFences(SubSeq(s, 4, Len(s)))
         ELSE <<s[1]>> \o ReSubFences(Tail(s))

RECURSIVE LStrip(_)
LStrip(s) ==
    IF s # <<>> /\ s[1] \in Whitespace THEN LStrip(Tail(s)) ELSE s

RECURSIVE RStrip(_)
RStrip(s) ==
    IF s # <<>> /\ s[Len(s)] \in Whitespace
    THEN RStrip(SubSeq(s, 1, Len(s) - 1))
    ELSE s

\* str.strip()
Strip(s) == LStrip(RStrip(s))

\* json.loads(raw_text): "TypeError" for None, "JSONDecodeError" unless the
\* text is one JSON document with optional whitespace around it.
json_loads(raw_text) ==
    LET body == Strip(raw_text)
    IN  IF raw_text = NoText THEN [error |-> "TypeError", doc |-> None]
        ELSE IF Len(body) = 1 /\ body[1] \in JsonDocs
             THEN [error |-> None, doc |-> body[1]]
             ELSE [error |-> "JSONDecodeError", doc |-> None]

IsDict(doc) == doc \in {DocFull, DocNoResponse, DocNoSummary}
HasKey(doc, key) ==
    CASE key = "user_summary" -> doc \in {DocFull, DocNoResponse}
      [] key = "response_text" -> doc \in {DocFull, DocNoSummary}
\* data.get(key, default)
DictGet(doc, key, default) ==
    IF HasKey(doc, key)
    THEN (IF key = "user_summary" THEN AskedAboutX ELSE IFocusOnY)
    ELSE default

\* chat_voice lines 345-354: the reply's two fields, or raised when an
\* exception other than json.JSONDecodeError leaves the inner try.
ParseReply(raw_text, user_text) ==
    LET j == json_loads(raw_text)
    IN  IF j.error = "JSONDecodeError"
        THEN [raised |-> FALSE, user_summary |-> user_text,
              response_text |-> Strip(ReSubFences(raw_text))]
        ELSE IF j.error # None \/ ~IsDict(j.doc)
        THEN [raised |-> TRUE, user_summary |-> NoText,
              response_text |-> NoText]
        ELSE [raised |-> FALSE,
              user_summary |-> DictGet(j.doc, "user_summary", user_text),
              response_text |->
                  DictGet(j.doc, "response_text", NotSureIUnderstood)]

\* a window that keeps the oldest n entries, history[:6]
LastN_first(s, n) == IF Len(s) <= n THEN s ELSE SubSeq(s, 1, n)

\* history[-6:] for n = 6
LastN(s, n) == IF Len(s) <= n THEN s ELSE SubSeq(s, Len(s) - n + 1, Len(s))

\* chat_voice lines 320-331
conversation_contents(history, user_text) ==
    LastN(history, HistoryWindow) \o <<Turn("user", user_text)>>

(***************************************************************************)
(* transcribe_audio.  The recognizer, the audio decoder and the remote     *)
(* recognition service are outside the repository: each is an outcome      *)
(* chosen by the environment.                                              *)
(*   fast: what lines 168-170 do: "text" (recognized), "ValueError"        *)
(*         (sr.AudioFile cannot read the container), "UnknownValueError"   *)
(*         (no speech understood), "RequestError" (any other exception).   *)
(*   slow: what lines 181-186 do: "DecodeError" (from_file/export raises;  *)
(*         wav says whether export had created the file), then the same    *)
(*         recognition outcomes.                                           *)
(***************************************************************************)
FastOutcomes ==
    [kind : {"text"}, text : Utterances]
    \cup [kind : {"ValueError", "UnknownValueError", "RequestError"},
          text : {NoText}]

SlowOutcomes ==
    [kind : {"text"}, text : Utterances, wav : {TRUE}]
    \cup [kind : {"UnknownValueError", "RequestError"},
          text : {NoText}, wav : {TRUE}]
    \cup [kind : {"DecodeError"}, text : {NoText}, wav : BOOLEAN]

\* lines 167-176: the text returned, or returned = FALSE when the except
\* clauses fall through to the slow path
FastPath(fast) ==
    IF fast.kind = "text"
    THEN [returned |-> TRUE, text |-> fast.text]
    ELSE [returned |-> FALSE, text |-> NoText]

\* lines 181-182: AudioSegment.from_file and export
SlowConvert(slow) ==
    [ok |-> slow.kind # "DecodeError", wav |-> slow.wav]

\* lines 184-194 after a conversion that did not raise
SlowRecognize(slow) ==
    CASE slow.kind = "text" -> slow.text
      [] slow.kind = "UnknownValueError" -> Silence
      [] OTHER -> SystemError

\* lines 179-196
SlowPath(slow) ==
    IF SlowConvert(slow).ok THEN SlowRecognize(slow) ELSE SystemError

\* transcribe_audio
transcribe_audio(fast, slow) ==
    IF FastPath(fast).returned THEN FastPath(fast).text ELSE SlowPath(slow)

(***************************************************************************)
(* The reasoning service (client.models.generate_content, lines 333-342):  *)
(* it raises (also when client is None), or returns a response whose text  *)
(* is one of Replies, or None.                                             *)
(***************************************************************************)
FencedBad == <<BT, BT, BT, JSONWORD, NL, "{bad}", NL, BT, BT, BT>>
FencedDoc == <<BT, BT, BT, JSONWORD, NL, DocFull, NL, BT, BT, BT, BT>>
PlainText == <<SP, "I focus on Y, mostly", NL>>
Replies ==
    {<<DocFull>>, <<NL, DocFull, SP>>, <<DocNoResponse>>, <<DocNoSummary>>,
     <<DocList>>, FencedBad, FencedDoc, PlainText, NoText}

ReasoningOutcomes ==
    [kind : {"raise"}, text : {NoText}] \cup [kind : {"text"}, text : Replies]

(***************************************************************************)
(* State.                                                                  *)
(***************************************************************************)
VARIABLES
    sessions,          \* session_manager.sessions
    files,             \* the files on disk that requests created
    pc,                \* pc[r]: where chat-voice request r is
    frame,             \* frame[r]: the locals of chat_voice for request r
                       \* that outlive its first suspension
    reasoning_call,    \* the last exchange with the reasoning service:
                       \* conversation_contents as sent, and what came back
    background_tasks,  \* background_tasks[r]: paths queued for remove_file
    response,          \* response[r]: what the client of request r received
    reset_log,         \* the /api/reset responses sent, in order
    persona_doc,       \* persona_questionnaire.md: its text, or NoText
    cache_file,        \* persona_summary.cache: its text, or NoText
    client,            \* TRUE when GOOGLE_API_KEY was set at this start
    raw_text,          \* persona_engine.raw_text
    summary,           \* persona_engine.summary
    starts,            \* process starts so far
    t_pc,              \* transcribe_audio: "fast", "convert", "recognize", "done"
    t_fast,            \* its fast-path outcome
    t_slow,            \* its slow-path outcome
    t_result,          \* the string it returned
    t_wav              \* TRUE while file_path + ".wav" is on disk

server_vars ==
    <<sessions, files, pc, frame, reasoning_call, background_tasks, response,
      reset_log>>
persona_vars == <<persona_doc, cache_file, client, raw_text, summary, starts>>
transcribe_vars == <<t_pc, t_fast, t_slow, t_result, t_wav>>
vars == <<server_vars, persona_vars, transcribe_vars>>

NewFrame ==
    [session_id |-> None,
     temp_input_path |-> NoPath,
     session |-> NoSession,
     user_summary |-> NoText,
     response_text |-> NoText,
     out_filename |-> NoPath,
     communicate |-> NoText,
     err_tmp |-> NoPath]

NoCall ==
    [request |-> 0, contents |-> <<>>, kind |-> None, text |-> NoText]

NoResponse == [status |-> 0, filename |-> None, path |-> NoPath]

ServerInit ==
    /\ sessions = EmptyStore
    /\ files = {}
    /\ pc = [r \in AllRequests |-> "new"]
    /\ frame = [r \in AllRequests |-> NewFrame]
    /\ reasoning_call = NoCall
    /\ background_tasks = [r \in AllRequests |-> <<>>]
    /\ response = [r \in AllRequests |-> NoResponse]
    /\ reset_log = <<>>

(***************************************************************************)
(* /api/chat-voice.                                                        *)
(***************************************************************************)
\* lines 376-381 up to the await inside generate_error_audio (line 158):
\* the input file is removed when its path was bound, and the apology
\* clip's temp file is created (line 156).
ExceptHandler(r, fr, fs) ==
    [frame |-> [fr EXCEPT !.err_tmp = ErrPath(r)],
     files |-> (IF fr.temp_input_path # NoPath
                THEN remove_file(fs, fr.temp_input_path)
                ELSE fs) \cup {ErrPath(r)}]

\* lines 237-238
Suffix(content_type) == IF content_type = "audio/wav" THEN ".wav" ELSE ".webm"

\* lines 229-365, from the start of the handler to its first suspension:
\* the await of communicate.save (pc "tts"), or, when a step raised, the
\* await inside generate_error_audio (pc "err_tts").  The result is the
\* state the segment leaves.  The temp file of lines 242-244 exists once
\* NamedTemporaryFile returned; its path is bound only when copyfileobj did
\* not raise (copy_ok).
FirstSegment(r, store, fs, last_call, session_id, user_name, user_email, content_type, copy_ok, audio, reasoning) ==
    LET path == InputPath(r, Suffix(content_type))
        fs1 == fs \cup {path}
        f1 == [NewFrame EXCEPT !.session_id = session_id,
                  !.temp_input_path = IF copy_ok THEN path ELSE NoPath]
        \* lines 247-248
        st1 == IF Truthy(user_name) \/ Truthy(user_email)
               THEN update_profile(store, session_id, user_name, user_email,
                                   Uuid(r))
               ELSE store
        \* line 252
        user_text == transcribe_audio(audio.fast, audio.slow)
        \* lines 256-257
        st2 == get_session(st1, session_id, Uuid(r))
        history == st2[session_id].history
        f2 == [f1 EXCEPT !.session = st2[session_id].created_at]
        \* lines 320-342
        call == [request |-> r,
                 contents |-> conversation_contents(history, user_text),
                 kind |-> reasoning.kind, text |-> reasoning.text]
        \* lines 345-354
        reply == ParseReply(reasoning.text, user_text)
        \* line 359
        st3 == update_history(st2, session_id, reply.user_summary,
                              reply.response_text, Uuid(r))
        \* lines 363-364
        f3 == [f2 EXCEPT !.user_summary = reply.user_summary,
                  !.response_text = reply.response_text,
                  !.out_filename = RespPath(r),
                  !.communicate = reply.response_text]
        Raise(fr, st, c) ==
            [pc |-> "err_tts", frame |-> ExceptHandler(r, fr, fs1).frame,
             files |-> ExceptHandler(r, fr, fs1).files, sessions |-> st,
             call |-> c]
    IN  IF ~copy_ok THEN Raise(f1, store, last_call)
        ELSE IF reasoning.kind = "raise" \/ reply.raised
        THEN Raise(f2, st2, call)
        ELSE [pc |-> "tts", frame |-> f3, files |-> fs1, sessions |-> st3,
              call |-> call]

\* A handler that suspends between the two appends of update_history: the
\* model turn is appended in a later step.
ChatVoice_suspends_in_update_history(r, session_id, user_name, user_email, content_type, copy_ok, audio, reasoning) ==
    \/ /\ pc[r] = "new"
       /\ \A q \in AllRequests : q < r => pc[q] # "new"
       /\ LET seg == FirstSegment(r, sessions, files, reasoning_call,
                                  session_id, user_name, user_email,
                                  content_type, copy_ok, audio, reasoning)
              h == seg.sessions[session_id].history
          IN  /\ pc' = [pc EXCEPT ![r] =
                     IF seg.pc = "tts" THEN "appending" ELSE seg.pc]
              /\ frame' = [frame EXCEPT ![r] = seg.frame]
              /\ files' = seg.files
              /\ sessions' =
                     IF seg.pc = "tts"
                     THEN [seg.sessions EXCEPT ![session_id].history =
                              SubSeq(h, 1, Len(h) - 1)]
                     ELSE seg.sessions
              /\ reasoning_call' = seg.call
       /\ UNCHANGED <<background_tasks, response, reset_log>>
       /\ UNCHANGED <<persona_vars, transcribe_vars>>
    \/ /\ pc[r] = "appending"
       /\ frame[r].session_id = session_id
       /\ sessions' =
              [get_session(sessions, session_id, Uuid(r))
                  EXCEPT ![session_id].history =
                      Append(@, Turn("model", frame[r].response_text))]
       /\ pc' = [pc EXCEPT ![r] = "tts"]
       /\ UNCHANGED <<files, frame, reasoning_call, background_tasks,
                      response, reset_log>>
       /\ UNCHANGED <<persona_vars, transcribe_vars>>

\* chat_voice, first segment, for request r: requests are numbered in the
\* order they arrive.
ChatVoice(r, session_id, user_name, user_email, content_type, copy_ok, audio, reasoning) ==
    /\ pc[r] = "new"
    /\ \A q \in AllRequests : q < r => pc[q] # "new"
    /\ LET seg == FirstSegment(r, sessions, files, reasoning_call, session_id,
                               user_name, user_email, content_type, copy_ok,
                               audio, reasoning)
       IN  /\ pc' = [pc EXCEPT ![r] = seg.pc]
           /\ frame' = [frame EXCEPT ![r] = seg.frame]
           /\ files' = seg.files
           /\ sessions' = seg.sessions
           /\ reasoning_call' = seg.call
    /\ UNCHANGED <<background_tasks, response, reset_log>>
    /\ UNCHANGED <<persona_vars, transcribe_vars>>

\* lines 365-374: communicate.save returned
TtsSaved(r) ==
    /\ pc[r] = "tts"
    /\ LET out == frame[r].out_filename
       IN  /\ files' = remove_file(files \cup {out}, frame[r].temp_input_path)
           /\ background_tasks' = [background_tasks EXCEPT ![r] = Append(@, out)]
           /\ response' = [response EXCEPT ![r] =
                  [status |-> 200, filename |-> "response.mp3", path |-> out]]
    /\ pc' = [pc EXCEPT ![r] = "sent"]
    /\ frame' = [frame EXCEPT ![r] = NewFrame]
    /\ UNCHANGED <<sessions, reasoning_call, reset_log>>
    /\ UNCHANGED <<persona_vars, transcribe_vars>>

\* line 365 raises, then lines 376-381: edge_tts opens the output file
\* before it streams, so a failed save may leave it (wrote) or not.
TtsRaised(r, wrote) ==
    /\ pc[r] = "tts"
    /\ LET fs1 == IF wrote THEN files \cup {frame[r].out_filename} ELSE files
       IN  /\ frame' = [frame EXCEPT ![r] = ExceptHandler(r, frame[r], fs1).frame]
           /\ files' = ExceptHandler(r, frame[r], fs1).files
    /\ pc' = [pc EXCEPT ![r] = "err_tts"]
    /\ UNCHANGED <<sessions, reasoning_call, background_tasks, response, reset_log>>
    /\ UNCHANGED <<persona_vars, transcribe_vars>>

\* lines 158-159 and 382-383: the apology clip was saved
ErrorAudioSaved(r) ==
    /\ pc[r] = "err_tts"
    /\ LET err_file == frame[r].err_tmp
       IN  /\ background_tasks' =
                  [background_tasks EXCEPT ![r] = Append(@, err_file)]
           /\ response' = [response EXCEPT ![r] =
                  [status |-> 200, filename |-> "error.mp3", path |-> err_file]]
    /\ pc' = [pc EXCEPT ![r] = "sent"]
    /\ frame' = [frame EXCEPT ![r] = NewFrame]
    /\ UNCHANGED <<sessions, files, reasoning_call, reset_log>>
    /\ UNCHANGED <<persona_vars, transcribe_vars>>

\* line 158 raises inside the except clause: nothing catches it, the
\* framework answers 500 and runs no background task.
ErrorAudioRaised(r) ==
    /\ pc[r] = "err_tts"
    /\ response' = [response EXCEPT ![r] =
           [status |-> 500, filename |-> None, path |-> NoPath]]
    /\ pc' = [pc EXCEPT ![r] = "done"]
    /\ frame' = [frame EXCEPT ![r] = NewFrame]
    /\ UNCHANGED <<sessions, files, reasoning_call, background_tasks, reset_log>>
    /\ UNCHANGED <<persona_vars, transcribe_vars>>

RECURSIVE RemoveAll(_, _)
RemoveAll(fs, paths) ==
    IF paths = <<>> THEN fs
    ELSE RemoveAll(remove_file(fs, Head(paths)), Tail(paths))

\* the background tasks of lines 372 and 382, run once the response was sent
RunBackground(r) ==
    /\ pc[r] = "sent"
    /\ files' = RemoveAll(files, background_tasks[r])
    /\ background_tasks' = [background_tasks EXCEPT ![r] = <<>>]
    /\ pc' = [pc EXCEPT ![r] = "done"]
    /\ UNCHANGED <<sessions, frame, reasoning_call, response, reset_log>>
    /\ UNCHANGED <<persona_vars, transcribe_vars>>

(***************************************************************************)
(* /api/reset.                                                             *)
(***************************************************************************)
\* reset_session
Reset(session_id) ==
    /\ Len(reset_log) < MaxResets
    /\ sessions' = clear(sessions, session_id)
    /\ reset_log' = Append(reset_log,
           [session_id |-> session_id, status |-> "cleared"])
    /\ UNCHANGED <<files, pc, frame, reasoning_call, background_tasks, response>>
    /\ UNCHANGED <<persona_vars, transcribe_vars>>

(***************************************************************************)
(* Specifications of the server.  They share the actions and differ in     *)
(* the inputs the clients and the outside services supply.                 *)
(***************************************************************************)
PersonaIdle ==
    /\ persona_doc = NoText /\ cache_file = NoText /\ client = FALSE
    /\ raw_text = NoText /\ summary = NoText /\ starts = 0

TranscribeIdle ==
    /\ t_pc = "done" /\ t_fast = [kind |-> "ValueError", text |-> NoText]
    /\ t_slow = [kind |-> "DecodeError", text |-> NoText, wav |-> FALSE]
    /\ t_result = NoText /\ t_wav = FALSE

Init == ServerInit /\ PersonaIdle /\ TranscribeIdle

SpokenHi ==
    [fast |-> [kind |-> "text", text |-> <<"hi">>],
     slow |-> [kind |-> "DecodeError", text |-> NoText, wav |-> FALSE]]

\* one upload for each way through transcribe_audio
AudioSamples ==
    {SpokenHi,
     [fast |-> [kind |-> "ValueError", text |-> NoText],
      slow |-> [kind |-> "text", text |-> <<"what do you do">>, wav |-> TRUE]],
     [fast |-> [kind |-> "UnknownValueError", text |-> NoText],
      slow |-> [kind |-> "UnknownValueError", text |-> NoText, wav |-> TRUE]],
     [fast |-> [kind |-> "RequestError", text |-> NoText],
      slow |-> [kind |-> "DecodeError", text |-> NoText, wav |-> FALSE]]}
Serve(rs, sids, names, emails, ctypes, copies, audios, reasonings, wrotes) ==
    \/ \E r \in rs, session_id \in sids, user_name \in names,
          user_email \in emails, content_type \in ctypes,
          copy_ok \in copies, audio \in audios, reasoning \in reasonings :
             ChatVoice(r, session_id, user_name, user_email, content_type,
                       copy_ok, audio, reasoning)
    \/ \E r \in rs : TtsSaved(r)
    \/ \E r \in rs, wrote \in wrotes : TtsRaised(r, wrote)
    \/ \E r \in rs : ErrorAudioSaved(r)
    \/ \E r \in rs : ErrorAudioRaised(r)
    \/ \E r \in rs : RunBackground(r)
    \/ \E session_id \in sids : Reset(session_id)

RaiseOr(texts) ==
    [kind : {"raise"}, text : {NoText}] \cup [kind : {"text"}, text : texts]

\* Spec: concurrent requests and resets over two sessions, every failure
\* of ingest, reasoning and synthesis.
Next ==
    Serve(Requests, SessionIds, {None}, {None}, {"audio/webm"}, BOOLEAN,
         {SpokenHi}, RaiseOr({<<DocFull>>}), BOOLEAN)

Spec == Init /\ [][Next]_vars

\* SpecReply: every transcript and every reply of the reasoning service.
NextReply ==
    Serve(ReplyRequests, SessionIds, {None}, {None}, {"audio/webm"}, {TRUE},
         AudioSamples, ReasoningOutcomes, {FALSE})

SpecReply == Init /\ [][NextReply]_vars

\* SpecStore: every profile update, over two sessions.
NextStore ==
    Serve(StoreRequests, SessionIds, UserNames, UserEmails, {"audio/webm"},
         {TRUE}, {SpokenHi}, [kind : {"text"}, text : {<<DocFull>>}],
         {FALSE})

SpecStore == Init /\ [][NextStore]_vars

\* SpecWindow: one session whose history earlier requests have filled with
\* up to MaxPriorPairs pairs, as update_history leaves them.
PriorPairs ==
    {<<Turn("user", AskedAboutX), Turn("model", IFocusOnY)>>,
     <<Turn("user", <<"hi">>), Turn("model", IFocusOnY)>>}

RECURSIVE PriorHistories(_)
PriorHistories(k) ==
    IF k = 0 THEN {<<>>}
    ELSE PriorHistories(k - 1)
         \cup {h \o p : h \in PriorHistories(k - 1), p \in PriorPairs}

WindowInit ==
    /\ \E h \in PriorHistories(MaxPriorPairs) :
          sessions = IF h = <<>> THEN EmptyStore
                     ELSE ("s1" :> [NewSession(Uuid(0)) EXCEPT !.history = h])
    /\ files = {}
    /\ pc = [r \in AllRequests |-> "new"]
    /\ frame = [r \in AllRequests |-> NewFrame]
    /\ reasoning_call = NoCall
    /\ background_tasks = [r \in AllRequests |-> <<>>]
    /\ response = [r \in AllRequests |-> NoResponse]
    /\ reset_log = <<>>

NextWindow ==
    Serve(WindowRequests, {"s1"}, {None}, {None}, {"audio/webm"}, {TRUE},
         AudioSamples, RaiseOr({<<DocFull>>, <<DocNoSummary>>}), {FALSE})

InitWindow == WindowInit /\ PersonaIdle /\ TranscribeIdle

SpecWindow == InitWindow /\ [][NextWindow]_vars

(***************************************************************************)
(* transcribe_audio, step by step, on every pair of outcomes.              *)
(***************************************************************************)
TranscribeInit ==
    /\ t_pc = "fast"
    /\ t_fast \in FastOutcomes
    /\ t_slow \in SlowOutcomes
    /\ t_result = NoText
    /\ t_wav = FALSE

\* lines 167-176
TFastPath ==
    /\ t_pc = "fast"
    /\ IF FastPath(t_fast).returned
       THEN t_pc' = "done" /\ t_result' = FastPath(t_fast).text
       ELSE t_pc' = "convert" /\ t_result' = t_result
    /\ UNCHANGED <<t_fast, t_slow, t_wav>>
    /\ UNCHANGED <<server_vars, persona_vars>>

\* lines 179-182, and lines 192-196 when the conversion raises
TConvert ==
    /\ t_pc = "convert"
    /\ IF SlowConvert(t_slow).ok
       THEN /\ t_pc' = "recognize"
            /\ t_wav' = SlowConvert(t_slow).wav
            /\ t_result' = t_result
       ELSE /\ t_pc' = "done"
            /\ t_wav' = FALSE
            /\ t_result' = SlowPath(t_slow)
    /\ UNCHANGED <<t_fast, t_slow>>
    /\ UNCHANGED <<server_vars, persona_vars>>

\* lines 184-196
TRecognize ==
    /\ t_pc = "recognize"
    /\ t_pc' = "done"
    /\ t_result' = SlowPath(t_slow)
    /\ t_wav' = FALSE
    /\ UNCHANGED <<t_fast, t_slow>>
    /\ UNCHANGED <<server_vars, persona_vars>>

NextTranscribe == TFastPath \/ TConvert \/ TRecognize

InitTranscribe == ServerInit /\ PersonaIdle /\ TranscribeInit

SpecTranscribe == InitTranscribe /\ [][NextTranscribe]_vars

(***************************************************************************)
(* PersonaEngine: process starts.                                          *)
(***************************************************************************)
Marker == "Summary Generation Failed"
FailedSummary == <<"Professional Digital Twin (", Marker, ")">>
NoKeySummary == <<"No API Key - Default Persona">>
DefaultRawText == <<"Standard Professional Persona">>
DefaultSummary == <<"A helpful professional assistant.">>
ErrorRawText == <<"Error loading persona.">>
ErrorSummary == <<"A helpful assistant.">>

Docs == {<<"questionnaire v1">>, <<"questionnaire v2">>}
\* what the reasoning service can answer to the summary prompt
GeneratedSummaries ==
    {<<"=== CORE IDENTITY === A">>, <<"=== CORE IDENTITY === B">>,
     <<"=== CORE IDENTITY === on ", Marker>>}

\* gen: "raise", "none" (resp.text is None) or "text"
GenOutcomes ==
    [kind : {"raise", "none"}, text : {NoText}]
    \cup [kind : {"text"}, text : GeneratedSummaries]

Contains(s, token) == \E i \in 1..Len(s) : s[i] = token

\* PersonaEngine._generate_summary_via_llm
generate_summary_via_llm(has_client, gen) ==
    IF ~has_client THEN NoKeySummary
    ELSE IF gen.kind = "raise" THEN FailedSummary
    ELSE gen.text

\* line 68: TRUE when the summary is to be cached
CacheWanted(s) == ~Contains(s, Marker)

\* lines 34-39 and PersonaEngine.__init__: one process start.  write_ok is
\* whether cpath.write_text succeeds.
ProcessStart(api_key, gen, write_ok) ==
    /\ starts < MaxStarts
    /\ starts' = starts + 1
    /\ client' = api_key
    /\ IF persona_doc # NoText
       THEN IF cache_file # NoText
            THEN /\ raw_text' = persona_doc
                 /\ summary' = cache_file
                 /\ cache_file' = cache_file
            ELSE LET s == generate_summary_via_llm(api_key, gen)
                 IN  IF s = NoText
                     THEN \* line 68 raises TypeError: lines 76-79
                          /\ raw_text' = ErrorRawText
                          /\ summary' = ErrorSummary
                          /\ cache_file' = cache_file
                     ELSE /\ raw_text' = persona_doc
                          /\ summary' = s
                          /\ cache_file' = IF CacheWanted(s) /\ write_ok
                                           THEN s ELSE cache_file
       ELSE /\ raw_text' = DefaultRawText
            /\ summary' = DefaultSummary
            /\ cache_file' = cache_file
    /\ persona_doc' = persona_doc
    /\ UNCHANGED <<server_vars, transcribe_vars>>

\* the persona document is edited, added or removed between starts
EditDocument(doc) ==
    /\ persona_doc # doc
    /\ persona_doc' = doc
    /\ UNCHANGED <<cache_file, client, raw_text, summary, starts>>
    /\ UNCHANGED <<server_vars, transcribe_vars>>

PersonaInit ==
    /\ persona_doc \in Docs \cup {NoText}
    /\ cache_file = NoText
    /\ client = FALSE
    /\ raw_text = NoText
    /\ summary = NoText
    /\ starts = 0

NextPersona ==
    \/ \E api_key \in BOOLEAN, gen \in GenOutcomes, write_ok \in BOOLEAN :
          ProcessStart(api_key, gen, write_ok)
    \/ \E doc \in Docs \cup {NoText} : EditDocument(doc)

InitPersona == ServerInit /\ PersonaInit /\ TranscribeIdle

SpecPersona == InitPersona /\ [][NextPersona]_vars

(***************************************************************************)
(* Properties of the voice pipeline.                                       *)
(***************************************************************************)
\* request r runs its first segment in this step
Begins(r) == pc[r] = "new" /\ pc'[r] # "new"

\* request r runs a later segment, or its background task, in this step
Continues(r) == pc[r] # "new" /\ pc'[r] # pc[r]

\* request r reached the reasoning call in this step
Called(r) == Begins(r) /\ reasoning_call'.request = r

\* the reply is a JSON object with user_summary and response_text
IsStructuredReply(text) ==
    /\ text # NoText
    /\ Len(Strip(text)) = 1
    /\ Strip(text)[1] = DocFull

\* the user turn and the model turn are next to each other in h, in order
PairIn(h, user_summary, response_text) ==
    \E i \in 1..(Len(h) - 1) :
        /\ h[i] = Turn("user", user_summary)
        /\ h[i + 1] = Turn("model", response_text)

\* the session request r read at line 256 is still the one in the store
SameSession(r) ==
    /\ frame[r].session_id \in DOMAIN sessions
    /\ sessions[frame[r].session_id].created_at = frame[r].session

\* request r has passed line 359 and line 365 raised
SynthesisRaised(r) == pc[r] = "err_tts" /\ frame[r].out_filename # NoPath

\* C1: every chat-voice request ends with HTTP 200 and an audio file,
\* response.mp3 or error.mp3, never a 5xx.
C1_AlwaysAudio200 ==
    \A r \in AllRequests :
        pc[r] \in {"sent", "done"} =>
            /\ response[r].status = 200
            /\ response[r].filename \in {"response.mp3", "error.mp3"}
            /\ response[r].path # NoPath

\* C2: whenever the reasoning service returns text that is not a
\* StructuredReply, the request goes on to SessionCommit and Synthesis with
\* user_summary = the transcript and response_text = the raw output with
\* the fence markers removed and stripped.
C2_UnparsedReplyFallsBack ==
    [][\A r \in AllRequests :
          (/\ Called(r)
           /\ reasoning_call'.kind = "text"
           /\ reasoning_call'.text # NoText
           /\ ~IsStructuredReply(reasoning_call'.text))
          => LET raw == reasoning_call'.text
                 contents == reasoning_call'.contents
                 transcript == contents[Len(contents)].text
                 cleaned == Strip(ReSubFences(raw))
                 sid == frame'[r].session_id
             IN  /\ pc'[r] = "tts"
                 /\ frame'[r].user_summary = transcript
                 /\ frame'[r].response_text = cleaned
                 /\ frame'[r].communicate = cleaned
                 /\ HistoryOf(sessions', sid) =
                        HistoryOf(sessions, sid)
                        \o <<Turn("user", transcript), Turn("model", cleaned)>>
      ]_vars

\* C3: a request whose reply parses as {user_summary, response_text}
\* appends exactly a user turn holding user_summary and a model turn
\* holding response_text to its session's history, synthesizes speech from
\* that response_text, and no step of the request changes any other entry
\* of any session's history.
C3_ParsedReplyCommitted ==
    [][\A r \in AllRequests :
          /\ (Called(r) /\ reasoning_call'.kind = "text"
                 /\ IsStructuredReply(reasoning_call'.text))
             => LET sid == frame'[r].session_id
                IN  /\ pc'[r] = "tts"
                    /\ HistoryOf(sessions', sid) =
                           HistoryOf(sessions, sid)
                           \o <<Turn("user", AskedAboutX),
                                Turn("model", IFocusOnY)>>
                    /\ frame'[r].communicate = IFocusOnY
                    /\ \A t \in SessionIds \ {sid} :
                           HistoryOf(sessions', t) = HistoryOf(sessions, t)
          /\ Continues(r) => sessions' = sessions
      ]_vars

C3_Witness ==
    \E r \in AllRequests :
        /\ pc[r] = "tts"
        /\ reasoning_call.request = r
        /\ reasoning_call.text = <<DocFull>>
        /\ reasoning_call.contents[Len(reasoning_call.contents)].text = <<"hi">>
        /\ frame[r].session_id = "s2"
        /\ HistoryOf(sessions, "s2") =
               <<Turn("user", AskedAboutX), Turn("model", IFocusOnY)>>
        /\ Len(HistoryOf(sessions, "s1")) = 2

\* C4: for a history of any length n, the turns sent to the reasoning
\* service are the last min(n, 6) entries in order followed by the new
\* transcript as a user turn, and the stored history keeps every entry.
C4_WindowIsLastSix ==
    [][\A r \in AllRequests :
          Called(r)
          => LET sid == frame'[r].session_id
                 h == HistoryOf(sessions, sid)
                 n == Len(h)
                 k == IF n < 6 THEN n ELSE 6
                 c == reasoning_call'.contents
                 after == HistoryOf(sessions', sid)
             IN  /\ Len(c) = k + 1
                 /\ \A i \in 1..k : c[i] = h[n - k + i]
                 /\ c[k + 1].role = "user"
                 /\ c[k + 1].text \in Utterances \cup {Silence, SystemError}
                 /\ (pc'[r] = "tts" /\ reasoning_call'.text = <<DocNoSummary>>)
                        => c[k + 1].text = frame'[r].user_summary
                 /\ Len(after) >= n
                 /\ SubSeq(after, 1, n) = h
      ]_vars

C4_Witness ==
    /\ reasoning_call.request # 0
    /\ Len(reasoning_call.contents) = 7
    /\ Len(HistoryOf(sessions, "s1")) = 10
    /\ reasoning_call.contents[1] # HistoryOf(sessions, "s1")[1]

\* C5: no temp file a request created outlives it: the input file is gone
\* when the handler returns, and every output file is gone once the
\* deferred task ran.
C5_NoTempFileOutlivesRequest ==
    \A r \in AllRequests :
        /\ pc[r] \in {"sent", "done"} =>
               ~\E f \in files : f[1] = "tmp_in" /\ f[2] = r
        /\ pc[r] = "done" => ~\E f \in files : f[2] = r

\* C6: whenever recognition reports no speech, on either path, the result
\* is "Silence"; no speech on the fast path does not enter the fallback and
\* never ends as "System Error".
C6_NoSpeechIsSilence ==
    /\ t_fast.kind = "UnknownValueError" =>
           /\ t_pc \notin {"convert", "recognize"}
           /\ t_pc = "done" => t_result = Silence
    /\ (t_pc = "done" /\ t_fast.kind # "text"
            /\ t_slow.kind = "UnknownValueError") => t_result = Silence

\* C7: the cache file is written only with the text of a successful
\* generation; when generation fails or is not possible the cache is left
\* absent.
C7_CacheOnlySuccessfulSummary ==
    cache_file # NoText => cache_file \in GeneratedSummaries

\* C8: after clear(id) the next get(id) returns a session with empty
\* history and no name or email, as for a never-seen id; clearing an absent
\* id changes nothing; /api/reset answers "cleared"; every other session
\* is unchanged.
C8_ClearThenGetIsFresh ==
    [][Len(reset_log') = Len(reset_log) + 1
         => LET sid == reset_log'[Len(reset_log')].session_id
                got == get_session(sessions', sid, Uuid(0))[sid]
            IN  /\ reset_log'[Len(reset_log')].status = "cleared"
                /\ got.history = <<>>
                /\ got.user_profile = [name |-> None, email |-> None]
                /\ got = get_session(EmptyStore, sid, Uuid(0))[sid]
                /\ sid \notin DOMAIN sessions => sessions' = sessions
                /\ \A t \in SessionIds \ {sid} :
                       /\ t \in DOMAIN sessions' <=> t \in DOMAIN sessions
                       /\ t \in DOMAIN sessions => sessions'[t] = sessions[t]
      ]_vars

C8_Witness ==
    \E r \in AllRequests, t \in DOMAIN sessions :
        /\ reset_log # <<>>
        /\ reset_log[Len(reset_log)].session_id = frame[r].session_id
        /\ pc[r] = "tts"
        /\ frame[r].session_id \notin DOMAIN sessions
        /\ sessions[t].history # <<>>
        /\ sessions[t].user_profile = [name |-> "Alice", email |-> "a@x.com"]

\* two requests of one session are in flight together, both past line 359
BothCommitted(r1, r2) ==
    /\ r1 < r2
    /\ pc[r1] = "tts" /\ pc[r2] = "tts"
    /\ frame[r1].session_id = frame[r2].session_id
    /\ SameSession(r1) /\ SameSession(r2)

Interleaved(h) ==
    \E i \in 1..(Len(h) - 3) :
        /\ h[i].role = "user" /\ h[i + 1].role = "user"
        /\ h[i + 2].role = "model" /\ h[i + 3].role = "model"

C10_PairInHistoryAtApology ==
    \A r \in AllRequests :
        SynthesisRaised(r) =>
            PairIn(HistoryOf(sessions, frame[r].session_id),
                   frame[r].user_summary, frame[r].response_text)

\* C10 as amended: SessionCommit precedes Synthesis and the request never
\* rolls it back: when the synthesis step raised, the pair is in the
\* session's history unless /api/reset cleared that session in between; no
\* later step of the request changes the store; a request that fails
\* before SessionCommit leaves every history as it was.
C10_CommitBeforeSynthesisNoRollback ==
    [][\A r \in AllRequests :
          /\ (pc'[r] = "tts" \/ SynthesisRaised(r)')
             => (SameSession(r)'
                 => PairIn(sessions'[frame'[r].session_id].history,
                           frame'[r].user_summary, frame'[r].response_text))
          /\ Continues(r) => sessions' = sessions
          /\ (Begins(r) /\ pc'[r] = "err_tts")
             => \A t \in SessionIds :
                    HistoryOf(sessions', t) = HistoryOf(sessions, t)
      ]_vars

C10_Witness ==
    \E r \in AllRequests :
        /\ SynthesisRaised(r)
        /\ SameSession(r)
        /\ PairIn(sessions[frame[r].session_id].history,
                  frame[r].user_summary, frame[r].response_text)

====
